---- MODULE Spec2Model ----
(***************************************************************************)
(* Model of interface.py: UIElement and its variants (Button, Label,       *)
(* TextInput, FrameBox) and the Interface window controller, over the      *)
(* tkinter widgets they wrap.                                              *)
(***************************************************************************)
EXTENDS Integers, Sequences, FiniteSets, TLC

\* ------------------------------------------------------------------ bounds
MaxInterfaces == 2   \* Interface objects constructed
MaxLaidOut == 1      \* Interface objects whose layout operations are explored
MaxElements == 2     \* element wrappers constructed
MaxActive == 1       \* element wrappers in the specifications of one operation
MaxLen == 2          \* length of a text
MaxFns == 2          \* callbacks handed to one event() call

IfaceIds == 1..MaxInterfaces
ElemIds == 1..MaxElements

\* ------------------------------------------------------- values and inputs
None == "None"

\* tkinter constants used by the maps of setPackSide and setBorder
TOP == "tk.TOP"
BOTTOM == "tk.BOTTOM"
LEFT == "tk.LEFT"
RIGHT == "tk.RIGHT"
FLAT == "tk.FLAT"
RAISED == "tk.RAISED"
SUNKEN == "tk.SUNKEN"
GROOVE == "tk.GROOVE"
RIDGE == "tk.RIDGE"

Layouts == {"pack", "grid", "place"}
LayoutArgs == Layouts \cup {"flow"}

side_map == [s \in {"top", "bottom", "left", "right"} |->
               CASE s = "top" -> TOP
                 [] s = "bottom" -> BOTTOM
                 [] s = "left" -> LEFT
                 [] s = "right" -> RIGHT]
SideArgs == DOMAIN side_map \cup {"center"}

style_map == [s \in {"flat", "raised", "sunken", "groove", "ridge"} |->
                CASE s = "flat" -> FLAT
                  [] s = "raised" -> RAISED
                  [] s = "sunken" -> SUNKEN
                  [] s = "groove" -> GROOVE
                  [] s = "ridge" -> RIDGE]
StyleArgs == DOMAIN style_map \cup {"solid"}

Kinds == {"Button", "Label", "TextInput", "FrameBox"}

\* keyword options handed to add(): dictionaries over row/column/x/y
NoOptions == [k \in {} |-> 0]
OptionSets == { NoOptions,
                [k \in {"row", "y"} |-> IF k = "row" THEN 1 ELSE 7],
                [k \in {"column", "x"} |-> IF k = "column" THEN 2 ELSE 5] }

Chars == {"a", "b", "c"}
Texts == UNION {[1..n -> Chars] : n \in 0..MaxLen}

Colors == {"red", "blue"}
Widths == {1, 2}

\* setOpacity's alpha, in tenths
Alphas == {-1, 0, 5, 10, 11}

Fns == {"f1", "f2"}
FnLists == UNION {[1..n -> Fns] : n \in 0..MaxFns}

\* dict.get(key, default)
DictGet(d, key, default) == IF key \in DOMAIN d THEN d[key] ELSE default

\* ------------------------------------------------------------------- state
VARIABLES
  roots,       \* number of native root windows (tk.Tk instances) created
  made,        \* the Interface objects constructed so far
  layout,      \* Interface._layout
  pack_side,   \* Interface._pack_side
  kind,        \* the variant of each constructed element, None before
  mgr,         \* the geometry manager managing each element's widget
  fg,          \* widget option fg
  activefg,    \* widget option activeforeground
  relief,      \* widget option relief, None until setBorder configures it
  bd,          \* widget option bd, 0 until setBorder configures it
  text,        \* Entry contents (TextInput) or widget option text
  command,     \* the functions captured by the widget's command
  accepted,    \* history: the argument of the latest setLayout() call that
               \* returned without raising, None when there was none
  result       \* outcome of the latest call

widgets == <<fg, activefg, relief, bd, text, command>>
iface == <<made, layout, pack_side, accepted>>
vars == <<roots, made, layout, pack_side, kind, mgr,
          fg, activefg, relief, bd, text, command, accepted, result>>

NoValue == [none |-> TRUE, str |-> <<>>]
Value(s) == [none |-> FALSE, str |-> s]

\* the record of a call: the method, the object it was called on, its
\* enumerated or text argument, and what came of it
Ok(op, target, arg) ==
  [op |-> op, target |-> target, arg |-> arg, err |-> "none",
   calls |-> <<>>, ran |-> <<>>, value |-> NoValue]
Raise(op, target, arg, e) ==
  [op |-> op, target |-> target, arg |-> arg, err |-> e,
   calls |-> <<>>, ran |-> <<>>, value |-> NoValue]

Init ==
  /\ roots = 0
  /\ made = {}
  /\ layout = [i \in IfaceIds |-> None]
  /\ pack_side = [i \in IfaceIds |-> TOP]
  /\ kind = [e \in ElemIds |-> None]
  /\ mgr = [e \in ElemIds |-> "none"]
  /\ fg = [e \in ElemIds |-> "default"]
  /\ activefg = [e \in ElemIds |-> "activedefault"]
  /\ relief = [e \in ElemIds |-> None]
  /\ bd = [e \in ElemIds |-> 0]
  /\ text = [e \in ElemIds |-> <<>>]
  /\ command = [e \in ElemIds |-> <<>>]
  /\ accepted = [i \in IfaceIds |-> None]
  /\ result = Ok("init", 0, None)

\* ------------------------------------------------------------ tkinter facts
\* the configuration options each wrapped widget class accepts, among the
\* options the wrapper uses
HasOption(k, opt) ==
  CASE k = "Button" -> opt \in {"text", "fg", "activeforeground", "bd",
                                "relief", "command"}
    [] k = "Label" -> opt \in {"text", "fg", "activeforeground", "bd",
                               "relief"}
    [] k = "TextInput" -> opt \in {"fg", "bd", "relief"}
    [] k = "FrameBox" -> opt \in {"bd", "relief"}

\* of the wrapped widget classes only tk.Entry has a get method
HasGet(k) == k = "TextInput"

\* ------------------------------------------------------------ constructors
\* variant of Interface.__init__ that starts in pack mode
NewInterface_packDefault(i) ==
  /\ i \notin made
  /\ \A j \in IfaceIds : j < i => j \in made
  /\ roots' = roots + 1
  /\ made' = made \cup {i}
  /\ layout' = [layout EXCEPT ![i] = "pack"]
  /\ pack_side' = [pack_side EXCEPT ![i] = TOP]
  /\ result' = Ok("Interface", i, None)
  /\ UNCHANGED <<kind, mgr, widgets, accepted>>

\* Interface.__init__: a new tk.Tk() root each time, layout unset, side TOP
NewInterface(i) ==
  /\ i \notin made
  /\ \A j \in IfaceIds : j < i => j \in made
  /\ roots' = roots + 1
  /\ made' = made \cup {i}
  /\ layout' = [layout EXCEPT ![i] = None]
  /\ pack_side' = [pack_side EXCEPT ![i] = TOP]
  /\ result' = Ok("Interface", i, None)
  /\ UNCHANGED <<kind, mgr, widgets, accepted>>

\* Button(text), Label(text), TextInput(), FrameBox(): the widget is created
\* without a master, so tkinter parents it to the default root and creates
\* that root when none exists yet. A TextInput starts empty.
NewElement(e, k, t) ==
  /\ kind[e] = None
  /\ \A f \in ElemIds : f < e => kind[f] # None
  /\ kind' = [kind EXCEPT ![e] = k]
  /\ text' = [text EXCEPT ![e] = IF k \in {"Button", "Label"} THEN t ELSE <<>>]
  /\ roots' = IF roots = 0 THEN 1 ELSE roots
  /\ result' = Ok(k, e, None)
  /\ UNCHANGED <<iface, mgr, fg, activefg, relief, bd, command>>

\* ------------------------------------------------------- geometry managers
GeoCall(m, side, a, b) == [m |-> m, side |-> side, a |-> a, b |-> b]

Other(m) == IF m = "pack" THEN "grid" ELSE "pack"

\* Tk refuses pack (grid) in a master that already has widgets managed by
\* grid (pack); every widget here has the default root as its master.
Conflict(e, m) ==
  /\ m \in {"pack", "grid"}
  /\ \E f \in ElemIds \ {e} : mgr[f] = Other(m)

\* widget.pack / widget.grid / widget.place
Manage(op, target, e, call) ==
  IF Conflict(e, call.m)
    THEN /\ mgr' = [mgr EXCEPT ![e] = "none"]
         /\ result' = [Raise(op, target, None, "TclError")
                         EXCEPT !.calls = <<call>>]
    ELSE /\ mgr' = [mgr EXCEPT ![e] = call.m]
         /\ result' = [Ok(op, target, None) EXCEPT !.calls = <<call>>]

\* ------------------------------------------------------------------ layout
\* variant of setLayout that also resets the pack side
setLayout_resetSide(i, l) ==
  /\ i \in made
  /\ IF l \notin {"pack", "grid", "place"}
       THEN /\ result' = Raise("setLayout", i, l, "ValueError")
            /\ UNCHANGED <<layout, accepted, pack_side>>
       ELSE /\ layout' = [layout EXCEPT ![i] = l]
            /\ pack_side' = [pack_side EXCEPT ![i] = TOP]
            /\ accepted' = [accepted EXCEPT ![i] = l]
            /\ result' = Ok("setLayout", i, l)
  /\ UNCHANGED <<roots, made, kind, mgr, widgets>>

setLayout(i, l) ==
  /\ i \in made
  /\ IF l \notin {"pack", "grid", "place"}
       THEN /\ result' = Raise("setLayout", i, l, "ValueError")
            /\ UNCHANGED <<layout, accepted>>
       ELSE /\ layout' = [layout EXCEPT ![i] = l]
            /\ accepted' = [accepted EXCEPT ![i] = l]
            /\ result' = Ok("setLayout", i, l)
  /\ UNCHANGED <<roots, made, pack_side, kind, mgr, widgets>>

\* variant of setPackSide that stores an unknown name instead of raising
setPackSide_unchecked(i, side) ==
  /\ i \in made
  /\ pack_side' = [pack_side EXCEPT ![i] =
                     IF side \in DOMAIN side_map THEN side_map[side] ELSE side]
  /\ result' = Ok("setPackSide", i, side)
  /\ UNCHANGED <<roots, made, layout, accepted, kind, mgr, widgets>>

setPackSide(i, side) ==
  /\ i \in made
  /\ IF side \notin DOMAIN side_map
       THEN /\ result' = Raise("setPackSide", i, side, "ValueError")
            /\ UNCHANGED pack_side
       ELSE /\ pack_side' = [pack_side EXCEPT ![i] = side_map[side]]
            /\ result' = Ok("setPackSide", i, side)
  /\ UNCHANGED <<roots, made, layout, accepted, kind, mgr, widgets>>

\* Interface.add(element, **options)
add(i, e, options) ==
  /\ i \in made
  /\ kind[e] # None
  /\ CASE layout[i] = "pack" ->
            Manage("add", i, e, GeoCall("pack", pack_side[i], 0, 0))
       [] layout[i] = "grid" ->
            Manage("add", i, e, GeoCall("grid", None,
                     DictGet(options, "row", 0), DictGet(options, "column", 0)))
       [] layout[i] = "place" ->
            Manage("add", i, e, GeoCall("place", None,
                     DictGet(options, "x", 0), DictGet(options, "y", 0)))
       [] OTHER ->
            /\ result' = Raise("add", i, None, "RuntimeError")
            /\ UNCHANGED mgr
  /\ UNCHANGED <<roots, iface, kind, widgets>>

\* variant of FrameBox.add that grids the element when a row is given
FrameBoxAdd_honourOpts(f, e, opts) ==
  /\ kind[f] = "FrameBox"
  /\ kind[e] # None
  /\ IF "row" \in DOMAIN opts
       THEN Manage("FrameBox.add", f, e, GeoCall("grid", None,
                     DictGet(opts, "row", 0), DictGet(opts, "column", 0)))
       ELSE Manage("FrameBox.add", f, e, GeoCall("pack", None, 0, 0))
  /\ UNCHANGED <<roots, iface, kind, widgets>>

\* FrameBox.add(element, **opts): element.widget.pack()
FrameBoxAdd(f, e, opts) ==
  /\ kind[f] = "FrameBox"
  /\ kind[e] # None
  /\ Manage("FrameBox.add", f, e, GeoCall("pack", None, 0, 0))
  /\ UNCHANGED <<roots, iface, kind, widgets>>

\* Interface.show(): runs the event loop of the root until it ends
show(i) ==
  /\ i \in made
  /\ result' = Ok("show", i, None)
  /\ UNCHANGED <<roots, iface, kind, mgr, widgets>>

\* ---------------------------------------------------------------- elements
\* UIElement.setForeground(color): widget.config(fg=color)
setForeground(e, color) ==
  /\ kind[e] # None
  /\ IF HasOption(kind[e], "fg")
       THEN /\ fg' = [fg EXCEPT ![e] = color]
            /\ result' = Ok("setForeground", e, color)
       ELSE /\ result' = Raise("setForeground", e, color, "TclError")
            /\ UNCHANGED fg
  /\ UNCHANGED <<roots, iface, kind, mgr, activefg, relief, bd, text, command>>

\* UIElement.setBorder(width, style)
setBorder(e, width, style) ==
  /\ kind[e] # None
  /\ IF style \notin DOMAIN style_map
       THEN /\ result' = Raise("setBorder", e, style, "ValueError")
            /\ UNCHANGED <<bd, relief>>
       ELSE IF HasOption(kind[e], "bd") /\ HasOption(kind[e], "relief")
              THEN /\ bd' = [bd EXCEPT ![e] = width]
                   /\ relief' = [relief EXCEPT ![e] = style_map[style]]
                   /\ result' = Ok("setBorder", e, style)
              ELSE /\ result' = Raise("setBorder", e, style, "TclError")
                   /\ UNCHANGED <<bd, relief>>
  /\ UNCHANGED <<roots, iface, kind, mgr, fg, activefg, text, command>>

\* UIElement.setOpacity(alpha), alpha in tenths:
\* widget.config(activeforeground=widget.cget("fg")) when 0.0 <= alpha <= 1.0
setOpacity(e, alpha) ==
  /\ kind[e] # None
  /\ IF 0 <= alpha /\ alpha <= 10
       THEN IF HasOption(kind[e], "fg")
                 /\ HasOption(kind[e], "activeforeground")
              THEN /\ activefg' = [activefg EXCEPT ![e] = fg[e]]
                   /\ result' = Ok("setOpacity", e, alpha)
              ELSE /\ result' = Raise("setOpacity", e, alpha, "TclError")
                   /\ UNCHANGED activefg
       ELSE /\ result' = Raise("setOpacity", e, alpha, "ValueError")
            /\ UNCHANGED activefg
  /\ UNCHANGED <<roots, iface, kind, mgr, fg, relief, bd, text, command>>

\* Entry.delete(first, last): removes the characters at indices
\* first .. last-1 (0-based); END is the length of the contents
END(s) == Len(s)
EntryDelete(s, first, last) ==
  IF first >= last THEN s
  ELSE SubSeq(s, 1, first) \o SubSeq(s, last + 1, Len(s))

\* Entry.insert(index, string): inserts before the character at index
EntryInsert(s, index, t) ==
  SubSeq(s, 1, index) \o t \o SubSeq(s, index + 1, Len(s))

\* variant of TextInput.setText that inserts without clearing
TextInput_setText_noClear(s, t) == EntryInsert(s, 0, t)

\* TextInput.setText(text)
TextInput_setText(s, t) == EntryInsert(EntryDelete(s, 0, END(s)), 0, t)

\* UIElement.setText / TextInput.setText
setText(e, t) ==
  /\ kind[e] # None
  /\ IF kind[e] = "TextInput"
       THEN /\ text' = [text EXCEPT ![e] = TextInput_setText(text[e], t)]
            /\ result' = Ok("setText", e, t)
       ELSE IF HasOption(kind[e], "text")
              THEN /\ text' = [text EXCEPT ![e] = t]
                   /\ result' = Ok("setText", e, t)
              ELSE /\ result' = Raise("setText", e, t, "TclError")
                   /\ UNCHANGED text
  /\ UNCHANGED <<roots, iface, kind, mgr, fg, activefg, relief, bd, command>>

\* variant of UIElement.get that lets the failure of widget.get() propagate
UIElement_get_propagate(e) ==
  IF HasGet(kind[e])
    THEN [Ok("get", e, None) EXCEPT !.value = Value(text[e])]
    ELSE Raise("get", e, None, "AttributeError")

\* UIElement.get(): try widget.get(), any exception gives None
UIElement_get(e) ==
  IF HasGet(kind[e])
    THEN [Ok("get", e, None) EXCEPT !.value = Value(text[e])]
    ELSE Ok("get", e, None)

\* TextInput.get(): widget.get()
TextInput_get(e) ==
  IF HasGet(kind[e])
    THEN [Ok("get", e, None) EXCEPT !.value = Value(text[e])]
    ELSE Raise("get", e, None, "AttributeError")

get(e) ==
  /\ kind[e] # None
  /\ result' = IF kind[e] = "TextInput" THEN TextInput_get(e)
                                        ELSE UIElement_get(e)
  /\ UNCHANGED <<roots, iface, kind, mgr, widgets>>

\* UIElement.event(*functions): widget.config(command=combined)
event(e, functions) ==
  /\ kind[e] # None
  /\ IF HasOption(kind[e], "command")
       THEN /\ command' = [command EXCEPT ![e] = functions]
            /\ result' = Ok("event", e, functions)
       ELSE /\ result' = Raise("event", e, functions, "TclError")
            /\ UNCHANGED command
  /\ UNCHANGED <<roots, iface, kind, mgr, fg, activefg, relief, bd, text>>

\* variant of combined() that runs the functions last to first
RECURSIVE combined_reversed(_, _, _)
combined_reversed(functions, k, log) ==
  IF k > Len(functions) THEN log
  ELSE combined_reversed(functions, k + 1, <<functions[k]>> \o log)

\* combined(): for fn in functions: fn()
RECURSIVE combined(_, _, _)
combined(functions, k, log) ==
  IF k > Len(functions) THEN log
  ELSE combined(functions, k + 1, Append(log, functions[k]))

\* the button is pressed: Tk calls the widget's command
Trigger(e) ==
  /\ kind[e] = "Button"
  /\ result' = [Ok("trigger", e, None) EXCEPT !.ran = combined(command[e], 1, <<>>)]
  /\ UNCHANGED <<roots, iface, kind, mgr, widgets>>

\* ---------------------------------------------------------- specifications
Construct ==
  \/ \E i \in IfaceIds : NewInterface(i)
  \/ \E e \in ElemIds, k \in Kinds : NewElement(e, k, <<>>)

\* construction only
NextRoots == Construct
SpecRoots == Init /\ [][NextRoots]_vars

\* the Interface layout operations and FrameBox.add
LaidOut == 1..MaxLaidOut
Active == 1..MaxActive
\* the pack sides tried together with placement
SomeSides == {"bottom", "right", "center"}
NextLayout ==
  \/ \E i \in LaidOut : NewInterface(i)
  \/ \E e \in Active, k \in {"Button", "FrameBox"} : NewElement(e, k, <<>>)
  \/ \E i \in LaidOut, l \in LayoutArgs : setLayout(i, l)
  \/ \E i \in LaidOut, s \in SomeSides : setPackSide(i, s)
  \/ \E i \in LaidOut, e \in Active, o \in OptionSets : add(i, e, o)
  \/ \E f \in Active, e \in Active, o \in OptionSets : FrameBoxAdd(f, e, o)
SpecLayout == Init /\ [][NextLayout]_vars

\* Interface calls only
NextInterface ==
  \/ \E i \in LaidOut : NewInterface(i)
  \/ \E e \in ElemIds, k \in {"Button", "Label"} : NewElement(e, k, <<>>)
  \/ \E i \in LaidOut, l \in LayoutArgs : setLayout(i, l)
  \/ \E i \in LaidOut, s \in SomeSides : setPackSide(i, s)
  \/ \E i \in LaidOut, e \in ElemIds, o \in OptionSets : add(i, e, o)
SpecInterface == Init /\ [][NextInterface]_vars

\* the setters with an enumerated argument, with add() and show()
NextEnum ==
  \/ \E i \in LaidOut : NewInterface(i)
  \/ \E e \in Active, k \in Kinds : NewElement(e, k, <<>>)
  \/ \E i \in LaidOut, l \in LayoutArgs : setLayout(i, l)
  \/ \E i \in LaidOut, s \in SideArgs : setPackSide(i, s)
  \/ \E e \in Active, w \in Widths, s \in StyleArgs : setBorder(e, w, s)
  \/ \E i \in LaidOut, e \in Active, o \in OptionSets : add(i, e, o)
  \/ \E i \in LaidOut : show(i)
SpecEnum == Init /\ [][NextEnum]_vars

\* colours and opacity
NextStyle ==
  \/ \E e \in ElemIds, k \in Kinds : NewElement(e, k, <<>>)
  \/ \E e \in ElemIds, c \in Colors : setForeground(e, c)
  \/ \E e \in ElemIds, a \in Alphas : setOpacity(e, a)
SpecStyle == Init /\ [][NextStyle]_vars

\* text and get
NextText ==
  \/ \E e \in Active, k \in Kinds, t \in Texts : NewElement(e, k, t)
  \/ \E e \in Active, t \in Texts : setText(e, t)
  \/ \E e \in Active : get(e)
SpecText == Init /\ [][NextText]_vars

\* events
NextEvent ==
  \/ \E e \in ElemIds, k \in Kinds : NewElement(e, k, <<>>)
  \/ \E e \in ElemIds, fs \in FnLists : event(e, fs)
  \/ \E e \in ElemIds : Trigger(e)
SpecEvent == Init /\ [][NextEvent]_vars

\* ------------------------------------------------------------------ claims
\* every variable but result
state == <<roots, made, layout, pack_side, kind, mgr,
           fg, activefg, relief, bd, text, command, accepted>>

\* the constant a pack side name stands for
SideConstant(name) ==
  CASE name = "top" -> TOP
    [] name = "bottom" -> BOTTOM
    [] name = "left" -> LEFT
    [] name = "right" -> RIGHT

\* C1: while no setLayout() call of an Interface has succeeded, whatever
\* rejected setLayout() and whatever setPackSide() calls were made, add()
\* raises the runtime error and calls no geometry manager.
C1_AddBeforeLayout ==
  [][(result'.op = "add" /\ accepted[result'.target] = None) =>
        /\ result'.err = "RuntimeError"
        /\ result'.calls = <<>>
        /\ mgr' = mgr]_vars

C1_Witness ==
  /\ result.op = "add"
  /\ result.err = "RuntimeError"
  /\ pack_side[result.target] = RIGHT

\* the geometry call add() owes in the mode of the latest accepted setLayout()
ExpectedCall(i, o) ==
  CASE accepted[i] = "pack" -> GeoCall("pack", pack_side[i], 0, 0)
    [] accepted[i] = "grid" ->
         GeoCall("grid", None,
                 IF "row" \in DOMAIN o THEN o["row"] ELSE 0,
                 IF "column" \in DOMAIN o THEN o["column"] ELSE 0)
    [] accepted[i] = "place" ->
         GeoCall("place", None,
                 IF "x" \in DOMAIN o THEN o["x"] ELSE 0,
                 IF "y" \in DOMAIN o THEN o["y"] ELSE 0)

\* C2: once a setLayout() call was accepted, add() places the widget without
\* error by exactly one geometry call, the one of the latest accepted layout:
\* pack with the stored side, grid at row/column, place at x/y, defaults 0.
C2_AddPlaces ==
  [][result'.op = "add" =>
     \A i \in IfaceIds, e \in ElemIds, o \in OptionSets :
       (add(i, e, o) /\ accepted[i] # None) =>
          /\ result'.err = "none"
          /\ result'.calls = <<ExpectedCall(i, o)>>
          /\ mgr'[e] = accepted[i]]_vars

\* C3: setLayout, setPackSide and setBorder raise ValueError inside the call
\* exactly when the argument is outside the setter's fixed set, a call that
\* raises it stores nothing, and add() and show() never raise it later.
C3_EnumValidation ==
  [][/\ result'.op = "setLayout" =>
          (result'.err = "ValueError"
             <=> result'.arg \notin {"pack", "grid", "place"})
     /\ result'.op = "setPackSide" =>
          (result'.err = "ValueError"
             <=> result'.arg \notin {"top", "bottom", "left", "right"})
     /\ result'.op = "setBorder" =>
          (result'.err = "ValueError"
             <=> result'.arg \notin {"flat", "raised", "sunken", "groove",
                                     "ridge"})
     /\ result'.op \in {"setLayout", "setPackSide", "setBorder"} =>
          /\ result'.err \in {"none", "ValueError"}
          /\ result'.err = "ValueError" => UNCHANGED state
     /\ result'.op \in {"add", "show"} => result'.err # "ValueError"]_vars

C3_Witness ==
  /\ result.op = "setBorder"
  /\ result.err = "ValueError"
  /\ \E i \in made : layout[i] = "grid" /\ pack_side[i] = LEFT
  /\ relief[result.target] = RIDGE
  /\ mgr[result.target] = "grid"

\* C4: on every element variant setOpacity(v) raises ValueError exactly when
\* v < 0.0 or v > 1.0, and for v in [0,1] raises nothing and only sets the
\* active foreground to the current foreground.
C4_Opacity ==
  [][result'.op = "setOpacity" =>
       /\ result'.err = "ValueError" <=> (result'.arg < 0 \/ result'.arg > 10)
       /\ (0 <= result'.arg /\ result'.arg <= 10) =>
            /\ result'.err = "none"
            /\ activefg' = [activefg EXCEPT ![result'.target] =
                                               fg[result'.target]]
            /\ UNCHANGED <<fg, relief, bd, text, command, kind, mgr>>]_vars

\* C5: whatever a TextInput holds, setText(s) leaves exactly s in the field
\* and get() returns the field's contents, so setText(s); get() gives s.
C5_TextRoundTrip ==
  [][/\ (result'.op = "setText" /\ kind[result'.target] = "TextInput") =>
          /\ result'.err = "none"
          /\ text'[result'.target] = result'.arg
     /\ (result'.op = "get" /\ kind[result'.target] = "TextInput") =>
          /\ result'.value = Value(text[result'.target])
          /\ text' = text]_vars

C5_Witness ==
  /\ result.op = "get"
  /\ kind[result.target] = "TextInput"
  /\ result.value = Value(text[result.target])
  /\ Len(text[result.target]) = MaxLen

C7_Get ==
  [][result'.op = "get" =>
       /\ kind[result'.target] \in {"Button", "Label", "FrameBox"} =>
            (result'.err = "none" /\ result'.value = NoValue)
       /\ kind[result'.target] = "TextInput" =>
            (result'.err = "none"
               /\ result'.value = Value(text[result'.target]))
       /\ UNCHANGED state]_vars

C7_Witness ==
  /\ result.op = "get"
  /\ result.err = "none"
  /\ result.value = NoValue
  /\ kind[result.target] = "Label"
  /\ text[result.target] # <<>>

C9_OneRoot == roots <= 1

\* C10: the layout mode and the pack side change only by their own accepted
\* setter; a rejected setter call changes neither; setLayout() keeps the pack
\* side, setPackSide() keeps the layout mode, add() keeps both; a side set in
\* grid or place mode is the side add() uses once the mode is pack.
C10_Frame ==
  [][/\ result'.op = "setLayout" =>
          /\ pack_side' = pack_side
          /\ result'.arg \notin {"pack", "grid", "place"} => layout' = layout
          /\ result'.arg \in {"pack", "grid", "place"} =>
               layout' = [layout EXCEPT ![result'.target] = result'.arg]
     /\ result'.op = "setPackSide" =>
          /\ layout' = layout
          /\ result'.arg \notin {"top", "bottom", "left", "right"} =>
               pack_side' = pack_side
          /\ result'.arg \in {"top", "bottom", "left", "right"} =>
               pack_side' = [pack_side EXCEPT ![result'.target] =
                                                  SideConstant(result'.arg)]
     /\ result'.op = "add" =>
          /\ layout' = layout
          /\ pack_side' = pack_side
          /\ layout[result'.target] = "pack" =>
               result'.calls =
                  <<GeoCall("pack", pack_side[result'.target], 0, 0)>>
     /\ layout' # layout => result'.op = "setLayout"
     /\ pack_side' # pack_side => result'.op = "setPackSide"]_vars

C10_Witness ==
  /\ result.op = "add"
  /\ result.err = "none"
  /\ layout[result.target] = "pack"
  /\ pack_side[result.target] = RIGHT
  /\ result.calls = <<GeoCall("pack", RIGHT, 0, 0)>>
====
